---------------------------- MODULE Spec2Model ----------------------------
(***************************************************************************)
(* Geofence event processing service (src/geofence_service/app).           *)
(*                                                                         *)
(* The model follows the Python source: the coordinate normaliser          *)
(* (logic.py), the zone catalog and locator (zones.py, models.py), the     *)
(* vehicle state store and occupancy counter (state.py) and the request    *)
(* handlers (main.py).                                                     *)
(*                                                                         *)
(* Representation choices                                                  *)
(*  - a raw coordinate token is a sequence of one-character strings;       *)
(*  - a Python float is a record: kind "num" with an exact decimal         *)
(*    m * 10^e (m not divisible by 10, or m = 0 and e = 0), kind "nan",    *)
(*    kind "inf" with m = 1 or -1, kind "none" for Python's None;          *)
(*  - Python's None for an Optional[str] is the string None below;         *)
(*  - a datetime is a natural number, NoTime is Python's None.             *)
(***************************************************************************)
EXTENDS Integers, Sequences, FiniteSets, TLC

(***************************************************************************)
(* Python values                                                           *)
(***************************************************************************)
None == "<None>"

NoTime == -1

PyNum(m, e) == [kind |-> "num", m |-> m, e |-> e]

PyNaN == [kind |-> "nan", m |-> 0, e |-> 0]

PyInf(sign) == [kind |-> "inf", m |-> sign, e |-> 0]

NoFloat == [kind |-> "none", m |-> 0, e |-> 0]

RECURSIVE Pow10(_)
Pow10(n) == IF n <= 0 THEN 1 ELSE 10 * Pow10(n - 1)

RECURSIVE Dec(_, _)
\* The exact decimal m * 10^e in normal form.
Dec(m, e) ==
    IF m = 0 THEN PyNum(0, 0)
    ELSE IF m % 10 = 0 THEN Dec(m \div 10, e + 1)
    ELSE PyNum(m, e)

MinInt(a, b) == IF a <= b THEN a ELSE b

\* x <= y on Python floats (every comparison with nan is False).
PyLeq(x, y) ==
    IF x.kind = "nan" \/ y.kind = "nan" THEN FALSE
    ELSE IF x.kind = "inf" THEN x.m < 0 \/ (y.kind = "inf" /\ y.m > 0)
    ELSE IF y.kind = "inf" THEN y.m > 0
    ELSE LET k == MinInt(x.e, y.e)
         IN  x.m * Pow10(x.e - k) <= y.m * Pow10(y.e - k)

\* x > y on Python floats.
PyGt(x, y) == x.kind # "nan" /\ y.kind # "nan" /\ ~PyLeq(x, y)

PyAbs(x) ==
    IF x.kind = "nan" THEN x
    ELSE IF x.m < 0 THEN [x EXCEPT !.m = -x.m] ELSE x

(***************************************************************************)
(* Strings: str.strip(), str.upper(), float(str)                           *)
(***************************************************************************)
Whitespace == {" ", "\t"}

DigitChars == <<"0", "1", "2", "3", "4", "5", "6", "7", "8", "9">>

Digits == {DigitChars[i] : i \in 1..10}

DigitVal(c) == (CHOOSE i \in 1..10 : DigitChars[i] = c) - 1

LowerToUpper ==
    [a |-> "A", b |-> "B", c |-> "C", d |-> "D", e |-> "E", f |-> "F",
     g |-> "G", h |-> "H", i |-> "I", j |-> "J", k |-> "K", l |-> "L",
     m |-> "M", n |-> "N", o |-> "O", p |-> "P", q |-> "Q", r |-> "R",
     s |-> "S", t |-> "T", u |-> "U", v |-> "V", w |-> "W", x |-> "X",
     y |-> "Y", z |-> "Z"]

UpperChar(c) == IF c \in DOMAIN LowerToUpper THEN LowerToUpper[c] ELSE c

Upper(s) == [i \in 1..Len(s) |-> UpperChar(s[i])]

RECURSIVE LStrip(_)
LStrip(s) ==
    IF s = <<>> THEN s
    ELSE IF Head(s) \in Whitespace THEN LStrip(Tail(s)) ELSE s

RECURSIVE RStrip(_)
RStrip(s) ==
    IF s = <<>> THEN s
    ELSE IF s[Len(s)] \in Whitespace THEN RStrip(SubSeq(s, 1, Len(s) - 1))
    ELSE s

Strip(s) == RStrip(LStrip(s))

AllDigits(s) == \A i \in 1..Len(s) : s[i] \in Digits

RECURSIVE DigitsToInt(_)
DigitsToInt(s) ==
    IF s = <<>> THEN 0
    ELSE 10 * DigitsToInt(SubSeq(s, 1, Len(s) - 1)) + DigitVal(s[Len(s)])

\* Index of the first occurrence of c in s, 0 when there is none.
IndexOf(s, c) ==
    IF \E i \in 1..Len(s) : s[i] = c
    THEN CHOOSE i \in 1..Len(s) : s[i] = c /\ \A j \in 1..(i - 1) : s[j] # c
    ELSE 0

ParseError == [kind |-> "ValueError", m |-> 0, e |-> 0]

\* s[:i-1] and s[i+1:] around position i; all of s and nothing when i = 0.
Before(s, i) == IF i = 0 THEN s ELSE SubSeq(s, 1, i - 1)

After(s, i) == IF i = 0 THEN <<>> ELSE SubSeq(s, i + 1, Len(s))

ExpDigits(expo) ==
    IF expo # <<>> /\ Head(expo) \in {"+", "-"} THEN Tail(expo) ELSE expo

ExpOk(expo) == ExpDigits(expo) # <<>> /\ AllDigits(ExpDigits(expo))

ExpVal(expo) ==
    IF expo # <<>> /\ Head(expo) = "-" THEN -DigitsToInt(ExpDigits(expo))
    ELSE DigitsToInt(ExpDigits(expo))

\* The literal ipart [. fpart] [E expo].
ParseParts(ipart, fpart, expo, hasExp) ==
    IF /\ AllDigits(ipart) /\ AllDigits(fpart)
       /\ Len(ipart) + Len(fpart) > 0
       /\ (hasExp => ExpOk(expo))
    THEN Dec(DigitsToInt(ipart \o fpart), ExpVal(expo) - Len(fpart))
    ELSE ParseError

ParseMantissa(mant, expo, hasExp) ==
    ParseParts(Before(mant, IndexOf(mant, ".")),
               After(mant, IndexOf(mant, ".")), expo, hasExp)

\* float() of an unsigned upper-cased literal without surrounding blanks:
\* digits [. digits] [E [sign] digits], with at least one mantissa digit.
\* Tokens of the model hold no underscore and no other float syntax.
ParseUnsigned(s) ==
    ParseMantissa(Before(s, IndexOf(s, "E")), After(s, IndexOf(s, "E")),
                  IndexOf(s, "E") # 0)

Negate(neg, v) == IF v.kind = "num" /\ neg THEN Dec(-v.m, v.e) ELSE v

ParseBody(neg, body) ==
    IF body \in {<<"I", "N", "F">>,
                 <<"I", "N", "F", "I", "N", "I", "T", "Y">>}
    THEN PyInf(IF neg THEN -1 ELSE 1)
    ELSE IF body = <<"N", "A", "N">> THEN PyNaN
    ELSE Negate(neg, ParseUnsigned(body))

\* float(s) for an upper-cased s without surrounding blanks.
ParseFloat(s) ==
    ParseBody(s # <<>> /\ Head(s) = "-",
              IF s # <<>> /\ Head(s) \in {"+", "-"} THEN Tail(s) ELSE s)

(***************************************************************************)
(* logic.py: normalize_coordinate                                          *)
(***************************************************************************)
\* A JSON null / Python None given as a coordinate.
NullToken == <<"<null>">>

InvalidPatterns ==
    { <<"D", "$", "Q">>, <<"-">>, <<>>, <<"N", "A", "N">>,
      <<"N", "O", "N", "E">>, <<"N", "U", "L", "L">> }

CoordLimit == Dec(180, 0)

\* RangeCheck with abs(value) >= 180 for abs(value) > 180.
RangeCheck_Inclusive(value) ==
    IF value.kind = "ValueError" THEN Dec(0, 0)
    ELSE IF PyLeq(CoordLimit, PyAbs(value)) THEN Dec(0, 0)
    ELSE value

\* logic.py lines 47-56: the range check on the parsed value, 0.0 when
\* float() raised.
RangeCheck(value) ==
    IF value.kind = "ValueError" THEN Dec(0, 0)
    ELSE IF PyGt(PyAbs(value), CoordLimit) THEN Dec(0, 0)
    ELSE value

\* NormalizeStr without the test of lines 43-45.
NormalizeStr_NoPatterns(coord_str) == RangeCheck(ParseFloat(coord_str))

\* logic.py lines 42-56, on coord_str = str(coord).strip().upper()
NormalizeStr(coord_str) ==
    IF coord_str \in InvalidPatterns THEN Dec(0, 0)
    ELSE RangeCheck(ParseFloat(coord_str))

normalize_coordinate(coord) ==
    IF coord = NullToken THEN Dec(0, 0)
    ELSE NormalizeStr(Upper(Strip(coord)))

(***************************************************************************)
(* models.py: LocationEvent.normalize_coordinates (field validator)        *)
(***************************************************************************)
ZeroToken == <<"0", ".", "0">>

\* models.py lines 30-37, on v_str = str(v).strip().upper()
ValidateStr(v_str) ==
    IF v_str \in InvalidPatterns THEN ZeroToken
    ELSE IF ParseFloat(v_str).kind = "ValueError" THEN ZeroToken
    ELSE v_str

normalize_coordinates(v) ==
    IF v = NullToken THEN ZeroToken
    ELSE ValidateStr(Upper(Strip(v)))

(***************************************************************************)
(* models.py: Zone, ZoneTransition                                         *)
(***************************************************************************)
Zone(zone_id, name, min_lat, max_lat, min_lng, max_lng) ==
    [zone_id |-> zone_id, name |-> name,
     min_lat |-> min_lat, max_lat |-> max_lat,
     min_lng |-> min_lng, max_lng |-> max_lng]

\* contains with the upper edges excluded.
contains_HalfOpen(zone, lat, lng) ==
    /\ PyLeq(zone.min_lat, lat) /\ PyLeq(lat, zone.max_lat)
    /\ PyLeq(zone.min_lng, lng) /\ PyLeq(lng, zone.max_lng)
    /\ lat # zone.max_lat /\ lng # zone.max_lng

\* Zone.contains: min_lat <= lat <= max_lat and min_lng <= lng <= max_lng
contains(zone, lat, lng) ==
    /\ PyLeq(zone.min_lat, lat) /\ PyLeq(lat, zone.max_lat)
    /\ PyLeq(zone.min_lng, lng) /\ PyLeq(lng, zone.max_lng)

ENTER == "ENTER"

EXIT == "EXIT"

CHANGE == "CHANGE"

(***************************************************************************)
(* zones.py: load_zones, _get_default_zones, find_zone                     *)
(***************************************************************************)
_get_default_zones ==
    << Zone("zone_1", "Downtown", Dec(377749, -4), Dec(377849, -4),
            Dec(-1224194, -4), Dec(-1224094, -4)),
       Zone("zone_2", "Airport", Dec(376213, -4), Dec(376313, -4),
            Dec(-1223789, -4), Dec(-1223689, -4)) >>

\* The zones.json the process finds on disk.  exists: Path.exists();
\* json_ok: json.load succeeds; shape: "list", "dict_zones" (a dict with a
\* 'zones' key) or "other"; records: the zone records; records_ok: every
\* record validates as a Zone.
ZonesFile(exists, json_ok, shape, records, records_ok) ==
    [exists |-> exists, json_ok |-> json_ok, shape |-> shape,
     records |-> records, records_ok |-> records_ok]

\* Result of a call: raised is TRUE when the call ends with an exception.
Returned(v) == [raised |-> FALSE, value |-> v]

Raised == [raised |-> TRUE, value |-> <<>>]

\* load_zones that raises FileNotFoundError when zones.json is missing.
load_zones_AbsentRaises(file) ==
    IF ~file.exists THEN Raised
    ELSE IF ~file.json_ok THEN Raised
    ELSE IF file.shape \in {"list", "dict_zones"}
         THEN IF file.records_ok THEN Returned(file.records) ELSE Raised
         ELSE Raised

load_zones(file) ==
    IF ~file.exists THEN Returned(_get_default_zones)
    ELSE IF ~file.json_ok THEN Raised
    ELSE IF file.shape \in {"list", "dict_zones"}
         THEN IF file.records_ok THEN Returned(file.records) ELSE Raised
         ELSE Raised

\* What find_zone returns when no zone contains the point (Python None).
NoZone == Zone(None, None, NoFloat, NoFloat, NoFloat, NoFloat)

RECURSIVE find_zone_Last(_, _, _)
\* find_zone scanning the catalog from its end.
find_zone_Last(lat, lng, zones) ==
    IF zones = <<>> THEN NoZone
    ELSE IF contains(zones[Len(zones)], lat, lng) THEN zones[Len(zones)]
    ELSE find_zone_Last(lat, lng, SubSeq(zones, 1, Len(zones) - 1))

RECURSIVE find_zone(_, _, _)
find_zone(lat, lng, zones) ==
    IF zones = <<>> THEN NoZone
    ELSE IF contains(Head(zones), lat, lng) THEN Head(zones)
    ELSE find_zone(lat, lng, Tail(zones))

(***************************************************************************)
(* state.py: VehicleState, StateManager                                    *)
(***************************************************************************)
HISTORY_LIMIT == 100

\* Truth value of an Optional[str] in an if statement.
Truthy(s) == s # None /\ s # ""

\* datetime.isoformat()
isoformat(t) == <<"iso", t>>

VehicleState(vehicle_id) ==
    [vehicle_id |-> vehicle_id, current_zone |-> None, last_update |-> NoTime,
     last_latitude |-> NoFloat, last_longitude |-> NoFloat,
     transition_history |-> <<>>]

\* update_location that leaves last_update as it was.
update_location_NoTime(st, lat, lng, timestamp) ==
    [st EXCEPT !.last_latitude = lat, !.last_longitude = lng]

update_location(st, lat, lng, timestamp) ==
    [st EXCEPT !.last_latitude = lat, !.last_longitude = lng,
               !.last_update = timestamp]

\* TransitionRecord with from_zone and to_zone exchanged.
TransitionRecord_Swapped(transition, from_zone, to_zone, timestamp) ==
    [transition |-> transition, from_zone |-> to_zone,
     to_zone |-> from_zone, timestamp |-> isoformat(timestamp)]

TransitionRecord(transition, from_zone, to_zone, timestamp) ==
    [transition |-> transition, from_zone |-> from_zone,
     to_zone |-> to_zone, timestamp |-> isoformat(timestamp)]

\* transition_history[-n:]
LastN(h, n) == IF Len(h) > n THEN SubSeq(h, Len(h) - n + 1, Len(h)) ELSE h

\* Truncate keeping the oldest records (hist[:100] for hist[-100:]).
Truncate_Oldest(hist) ==
    IF Len(hist) > HISTORY_LIMIT THEN SubSeq(hist, 1, HISTORY_LIMIT) ELSE hist

\* state.py lines 39-40
Truncate(hist) ==
    IF Len(hist) > HISTORY_LIMIT THEN LastN(hist, HISTORY_LIMIT) ELSE hist

\* update_zone without the assignment to current_zone.
update_zone_NoSet(st, zone_id, transition, timestamp) ==
    [st EXCEPT !.transition_history =
                   Append(@, TransitionRecord(transition, st.current_zone,
                                              zone_id, timestamp))]

update_zone(st, zone_id, transition, timestamp) ==
    [st EXCEPT !.current_zone = zone_id,
               !.transition_history =
                   Truncate(Append(@, TransitionRecord(transition,
                                                       st.current_zone,
                                                       zone_id, timestamp)))]

\* A reference to a list: live is TRUE when the list object is the one the
\* VehicleState holds, FALSE when it is an object of its own; items is what
\* the list held when the reference was made.
ListRef(live, items) == [live |-> live, items |-> items]

\* The live list handed out in place of a copy.
list_copy_Alias(h) == ListRef(TRUE, h)

\* list.copy()
list_copy(h) == ListRef(FALSE, h)

to_status(st) ==
    [vehicle_id |-> st.vehicle_id, current_zone |-> st.current_zone,
     last_update |-> st.last_update, last_latitude |-> st.last_latitude,
     last_longitude |-> st.last_longitude,
     transition_history |-> list_copy(st.transition_history)]

\* get_vehicle that rebinds _vehicles to a dict holding the new entry only.
get_vehicle_Replace(vs, vehicle_id) ==
    IF vehicle_id \notin DOMAIN vs
    THEN [v \in {vehicle_id} |-> VehicleState(vehicle_id)]
    ELSE vs

\* StateManager.get_vehicle: the store after the call (the entry is created
\* when missing); the VehicleState returned is the entry of vehicle_id.
get_vehicle(vs, vehicle_id) ==
    IF vehicle_id \notin DOMAIN vs
    THEN [v \in DOMAIN vs \cup {vehicle_id} |->
             IF v = vehicle_id THEN VehicleState(vehicle_id) ELSE vs[v]]
    ELSE vs

\* dict.get(zone_id, 0) on _zone_counts
get_zone_count(zc, zone_id) == IF zone_id \in DOMAIN zc THEN zc[zone_id] ELSE 0

\* _zone_counts[zone_id] = n
SetCount(zc, zone_id, n) ==
    [z \in DOMAIN zc \cup {zone_id} |-> IF z = zone_id THEN n ELSE zc[z]]

MaxInt(a, b) == IF a >= b THEN a ELSE b

\* state.py lines 68-69
DecrementOld(zc, old_zone) ==
    IF Truthy(old_zone)
    THEN SetCount(zc, old_zone, MaxInt(0, get_zone_count(zc, old_zone) - 1))
    ELSE zc

\* IncrementNew with - 1 for + 1.
IncrementNew_Minus(zc, new_zone) ==
    IF Truthy(new_zone)
    THEN SetCount(zc, new_zone, get_zone_count(zc, new_zone) - 1)
    ELSE zc

\* state.py lines 70-71
IncrementNew(zc, new_zone) ==
    IF Truthy(new_zone)
    THEN SetCount(zc, new_zone, get_zone_count(zc, new_zone) + 1)
    ELSE zc

update_zone_count(zc, old_zone, new_zone) ==
    IncrementNew(DecrementOld(zc, old_zone), new_zone)

(***************************************************************************)
(* logic.py: get_zones, process_location_event                             *)
(***************************************************************************)
\* _zones_cache: None, or the list loaded.
NoCache == [loaded |-> FALSE, zones |-> <<>>]

Cached(zones) == [loaded |-> TRUE, zones |-> zones]

\* logic.py line 21: the cache after load_zones returned or raised r.
StoreLoaded(cache, r) ==
    [raised |-> r.raised, value |-> r.value,
     cache |-> IF r.raised THEN cache ELSE Cached(r.value), loads |-> 1]

\* get_zones: the zones returned (or the exception), the cache after the
\* call and the number of load_zones calls made.
get_zones(cache, file) ==
    IF cache = NoCache THEN StoreLoaded(cache, load_zones(file))
    ELSE [raised |-> FALSE, value |-> cache.zones, cache |-> cache,
          loads |-> 0]

\* Classify without the comparison old_zone_id != new_zone_id.
Classify_NoCompare(old_zone_id, new_zone_id) ==
    IF old_zone_id = None /\ new_zone_id # None THEN ENTER
    ELSE IF old_zone_id # None /\ new_zone_id = None THEN EXIT
    ELSE IF old_zone_id # None /\ new_zone_id # None THEN CHANGE
    ELSE None

\* logic.py lines 83-91
Classify(old_zone_id, new_zone_id) ==
    IF old_zone_id = None /\ new_zone_id # None THEN ENTER
    ELSE IF old_zone_id # None /\ new_zone_id = None THEN EXIT
    ELSE IF old_zone_id # new_zone_id /\ old_zone_id # None /\ new_zone_id # None
         THEN CHANGE
    ELSE None

LocationEvent(vehicle_id, latitude, longitude, timestamp) ==
    [vehicle_id |-> vehicle_id,
     latitude |-> normalize_coordinates(latitude),
     longitude |-> normalize_coordinates(longitude),
     timestamp |-> timestamp]

ZoneIdOf(new_zone) == IF new_zone # NoZone THEN new_zone.zone_id ELSE None

\* What a call leaves behind: the state after it, whether it raised, the
\* returned pair (new_zone_id, transition) and the locals it computed.
CallResult(raised, vs, zc, zr, fetched, old_zone_id, new_zone_id, transition, lat, lng, timestamp, appended) ==
    [raised |-> raised, vehicles |-> vs, zone_counts |-> zc,
     cache |-> zr.cache, loads |-> zr.loads, fetched |-> fetched,
     old_zone_id |-> old_zone_id, new_zone_id |-> new_zone_id,
     transition |-> transition, lat |-> lat, lng |-> lng,
     timestamp |-> timestamp, appended |-> appended]

\* UpdateState without the guard "if transition:" of line 97.
UpdateState_Unguarded(vehicle_id, lat, lng, vs1, zr, zc, old_zone_id, new_zone_id, transition, timestamp) ==
    CallResult(FALSE,
        [vs1 EXCEPT ![vehicle_id] =
            update_zone(update_location(@, lat, lng, timestamp),
                        new_zone_id, transition, timestamp)],
        update_zone_count(zc, old_zone_id, new_zone_id),
        zr, vs1[vehicle_id], old_zone_id, new_zone_id, transition,
        lat, lng, timestamp,
        <<TransitionRecord(transition, old_zone_id, new_zone_id, timestamp)>>)

\* logic.py lines 93-106
UpdateState(vehicle_id, lat, lng, vs1, zr, zc, old_zone_id, new_zone_id, transition, timestamp) ==
    IF transition # None
    THEN CallResult(FALSE,
            [vs1 EXCEPT ![vehicle_id] =
                update_zone(update_location(@, lat, lng, timestamp),
                            new_zone_id, transition, timestamp)],
            update_zone_count(zc, old_zone_id, new_zone_id),
            zr, vs1[vehicle_id], old_zone_id, new_zone_id, transition,
            lat, lng, timestamp,
            <<TransitionRecord(transition, old_zone_id, new_zone_id,
                               timestamp)>>)
    ELSE CallResult(FALSE,
            [vs1 EXCEPT ![vehicle_id] =
                update_location(@, lat, lng, timestamp)],
            zc, zr, vs1[vehicle_id], old_zone_id, new_zone_id, transition,
            lat, lng, timestamp, <<>>)

\* logic.py lines 82-94
ClassifyEvent(event, lat, lng, vs1, zr, zc, old_zone_id, new_zone_id, utcnow) ==
    UpdateState(event.vehicle_id, lat, lng, vs1, zr, zc, old_zone_id,
                new_zone_id, Classify(old_zone_id, new_zone_id),
                IF event.timestamp # NoTime THEN event.timestamp ELSE utcnow)

\* logic.py lines 75-80; an exception of get_zones ends the call.
LocateEvent(event, lat, lng, vs1, zr, zc, utcnow) ==
    IF zr.raised
    THEN CallResult(TRUE, vs1, zc, zr, vs1[event.vehicle_id],
                    vs1[event.vehicle_id].current_zone, None, None,
                    lat, lng, NoTime, <<>>)
    ELSE ClassifyEvent(event, lat, lng, vs1, zr, zc,
                       vs1[event.vehicle_id].current_zone,
                       ZoneIdOf(find_zone(lat, lng, zr.value)), utcnow)

\* process_location_event on the store vs, the counter zc and the cache,
\* with utcnow the reading of the clock.
process_location_event(event, vs, zc, cache, file, utcnow) ==
    LocateEvent(event, normalize_coordinate(event.latitude),
                normalize_coordinate(event.longitude),
                get_vehicle(vs, event.vehicle_id),
                get_zones(cache, file), zc, utcnow)

(***************************************************************************)
(* Bounds and inputs of the model                                          *)
(***************************************************************************)
\* Number of requests served in a run of Spec.
MaxCalls == 3

\* Number of events of the long single-vehicle run of SpecHist.
MaxHistEvents == 150

\* Events of SpecHist whose point is chosen freely, before the circuit.
WarmUp == 2

\* Number of requests in flight in a run of SpecConc.
MaxTasks == 2

VehicleIds == {"v1", "v2"}

\* An event whose timestamp field is omitted (default_factory=utcnow).
Omitted == -2

\* A timestamp sent by the client (older than every clock reading).
ClientTime == 0

TimestampInputs == {Omitted, NoTime}

\* (latitude, longitude) token pairs sent by vehicles.
P_downtown == << <<"3", "7", ".", "7", "8">>,
                 <<"-", "1", "2", "2", ".", "4", "1">> >>

P_outside == << <<"3", "7", ".", "7", "0">>,
                <<"-", "1", "2", "2", ".", "5", "0">> >>

P_airport == << <<"3", "7", ".", "6", "2", "5">>,
                <<" ", "-", "1", "2", "2", ".", "3", "7", "5">> >>

P_garbage == << <<"d", "$", "q">>, <<"-">> >>

\* Rejected by float(), and a null with a latitude out of range.
P_unparsable == << <<"1", "2", ".", "3", "4", ".", "5", "6">>,
                   <<"a", "b", "c">> >>

P_null == << NullToken, <<"2", "0", "0">> >>

\* A nan literal with a sign as latitude, on the meridian of the origin.
P_nan == << <<"-", "n", "a", "n">>, <<"0">> >>

EventPoints ==
    {P_downtown, P_outside, P_airport, P_garbage, P_unparsable, P_null, P_nan}

\* A zones.json holding a bare list: a zone with an empty id around
\* Downtown, an overlapping zone listed after it, a zone around the origin.
ListCatalog ==
    << Zone("", "Depot", Dec(3777, -2), Dec(3779, -2),
            Dec(-12242, -2), Dec(-1224, -1)),
       Zone("zone_1", "Bay", Dec(376, -1), Dec(378, -1),
            Dec(-12245, -2), Dec(-1223, -1)),
       Zone("origin", "Origin", Dec(-1, 0), Dec(1, 0), Dec(-1, 0), Dec(1, 0)) >>

\* A zones.json holding {"zones": [...]} with one zone.
DictCatalog ==
    << Zone("zone_2", "Airport", Dec(376213, -4), Dec(376313, -4),
            Dec(-1223789, -4), Dec(-1223689, -4)) >>

FileAbsent == ZonesFile(FALSE, FALSE, "other", <<>>, FALSE)

FileList == ZonesFile(TRUE, TRUE, "list", ListCatalog, TRUE)

FileDict == ZonesFile(TRUE, TRUE, "dict_zones", DictCatalog, TRUE)

\* {"regions": [...]}: valid JSON of neither accepted shape.
FileOtherShape == ZonesFile(TRUE, TRUE, "other", <<>>, TRUE)

\* Not JSON at all.
FileBadJson == ZonesFile(TRUE, FALSE, "other", <<>>, FALSE)

FileStates == {FileAbsent, FileList, FileDict, FileOtherShape, FileBadJson}

(***************************************************************************)
(* State                                                                   *)
(***************************************************************************)
VARIABLES
    zones_file,    \* zones.json on disk
    zones_cache,   \* logic._zones_cache
    vehicles,      \* state_manager._vehicles
    zone_counts,   \* state_manager._zone_counts
    started,       \* the startup handler has run
    load_count,    \* number of load_zones calls made so far
    now,           \* the clock (datetime.utcnow), one tick per request
    last_result,   \* the last request, its response and the locals it computed
    appended,      \* per vehicle, every transition record ever appended
    tasks,         \* SpecConc: the requests in flight, with their locals
    loop_owner,    \* SpecConc: the task the event loop is running
    call,          \* SpecPure: the function under call and its arguments
    snapshot       \* SpecSnap: the VehicleStatus a caller got and kept

vars == <<zones_file, zones_cache, vehicles, zone_counts, started, load_count,
          now, last_result, appended, tasks, loop_owner, call, snapshot>>

TaskIds == 1..MaxTasks

NoTask == 0

NoEvent == [vehicle_id |-> None, latitude |-> <<>>, longitude |-> <<>>,
            timestamp |-> NoTime]

IdleTask ==
    [pc |-> "idle", event |-> NoEvent, lat |-> NoFloat, lng |-> NoFloat,
     old_zone_id |-> None, new_zone_id |-> None, transition |-> None,
     timestamp |-> NoTime, count |-> 0, raised |-> FALSE, overlapped |-> FALSE]

\* No function is under call (Spec, SpecHist, SpecConc).
NoCall ==
    [fn |-> "none", token |-> <<>>, lat |-> NoFloat, lng |-> NoFloat,
     zones |-> <<>>]

\* The snapshot a caller holds.  keep: the caller keeps the VehicleStatus it
\* is given; taken: it holds one; history: its transition_history list;
\* original: what that list held when the snapshot was made; edits: the
\* records the caller appended to it since.
NoSnapshot ==
    [keep |-> FALSE, taken |-> FALSE, vehicle_id |-> None,
     history |-> ListRef(FALSE, <<>>), original |-> <<>>, edits |-> <<>>]

NoResult ==
    [op |-> "none", vehicle_id |-> None, raised |-> FALSE,
     new_zone_id |-> None, transition |-> None, locals |-> <<>>, body |-> <<>>]

Init ==
    /\ zones_file \in FileStates
    /\ zones_cache = NoCache
    /\ vehicles = <<>>
    /\ zone_counts = <<>>
    /\ started = FALSE
    /\ load_count = 0
    /\ now = 1
    /\ last_result = NoResult
    /\ appended = [v \in VehicleIds |-> <<>>]
    /\ tasks = [t \in TaskIds |-> IdleTask]
    /\ loop_owner = NoTask
    /\ call = NoCall
    /\ snapshot = NoSnapshot

(***************************************************************************)
(* main.py: the handlers                                                   *)
(***************************************************************************)
\* startup_event: load_zones() is called, its result dropped, its exception
\* logged and swallowed.
startup_event ==
    /\ ~started
    /\ now = 1
    /\ started' = TRUE
    /\ load_count' = load_count + 1
    /\ UNCHANGED <<call, snapshot, zones_file, zones_cache, vehicles, zone_counts, now,
                   last_result, appended, tasks, loop_owner>>

\* What a list reference shows after update_zone appended recs to the live
\* list of the vehicle (state.py line 36) and rebound the attribute to a new
\* list when more than HISTORY_LIMIT records were held (lines 39-40).
AfterAppend(ref, prior, recs) ==
    IF ref.live /\ recs # <<>>
    THEN ListRef(Len(prior \o recs) <= HISTORY_LIMIT, ref.items \o recs)
    ELSE ref

\* The snapshot held by the caller after an event of vehicle_id.
SnapshotAfterEvent(snap, vehicle_id, prior, recs) ==
    IF snap.taken /\ snap.vehicle_id = vehicle_id
    THEN [snap EXCEPT !.history = AfterAppend(@, prior, recs)]
    ELSE snap

\* The state and the response after process_location_event ended as r.
Respond(vehicle_id, raw, r) ==
    /\ vehicles' = r.vehicles
    /\ snapshot' = SnapshotAfterEvent(snapshot, vehicle_id,
                                      r.fetched.transition_history, r.appended)
    /\ zone_counts' = r.zone_counts
    /\ zones_cache' = r.cache
    /\ load_count' = load_count + r.loads
    /\ appended' = [appended EXCEPT ![vehicle_id] = @ \o r.appended]
    /\ now' = now + 1
    /\ last_result' =
          [op |-> "event", vehicle_id |-> vehicle_id, raised |-> r.raised,
           new_zone_id |-> r.new_zone_id, transition |-> r.transition,
           locals |-> [old_zone_id |-> r.old_zone_id,
                       fetched |-> r.fetched,
                       was_new |-> vehicle_id \notin DOMAIN vehicles,
                       raw |-> raw, lat |-> r.lat, lng |-> r.lng,
                       timestamp |-> r.timestamp],
           body |-> IF r.raised THEN <<"HTTP", 500>>
                    ELSE [vehicle_id |-> vehicle_id,
                          current_zone |-> r.new_zone_id,
                          transition |-> r.transition,
                          timestamp |-> isoformat(r.timestamp)]]
    /\ UNCHANGED <<call, zones_file, started, tasks, loop_owner>>

\* POST /events/location.  ts is the timestamp field of the request.
post_location_event(vehicle_id, latitude, longitude, ts) ==
    Respond(vehicle_id, <<latitude, longitude>>,
            process_location_event(
                LocationEvent(vehicle_id, latitude, longitude,
                              IF ts = Omitted THEN now ELSE ts),
                vehicles, zone_counts, zones_cache, zones_file, now))

\* The VehicleStatus st in the hands of a caller that keeps it.
Kept(snap, st) ==
    IF snap.keep
    THEN [snap EXCEPT !.taken = TRUE, !.vehicle_id = st.vehicle_id,
                      !.history = st.transition_history,
                      !.original = st.transition_history.items,
                      !.edits = <<>>]
    ELSE snap

\* The store and the snapshot after get_vehicle left the store as vs1.
RespondStatus(vehicle_id, vs1) ==
    /\ vehicles' = vs1
    /\ snapshot' = Kept(snapshot, to_status(vs1[vehicle_id]))
    /\ now' = now + 1
    /\ last_result' =
          [NoResult EXCEPT !.op = "status", !.vehicle_id = vehicle_id,
                           !.body = to_status(vs1[vehicle_id])]
    /\ UNCHANGED <<call, zones_file, zones_cache, zone_counts, started,
                   load_count, appended, tasks, loop_owner>>

\* GET /vehicles/{vehicle_id}/status
get_vehicle_status(vehicle_id) ==
    RespondStatus(vehicle_id, get_vehicle(vehicles, vehicle_id))

\* main.py lines 124-134
ZoneInfo(zone, vehicle_count) ==
    [zone_id |-> zone.zone_id, name |-> zone.name,
     bounds |-> [min_lat |-> zone.min_lat, max_lat |-> zone.max_lat,
                 min_lng |-> zone.min_lng, max_lng |-> zone.max_lng],
     vehicle_count |-> vehicle_count]

\* ZoneInfoList that reports a count of 0 for every zone.
ZoneInfoList_Zeroed(zones, zc) ==
    [i \in 1..Len(zones) |-> ZoneInfo(zones[i], 0)]

\* main.py lines 120-137
ZoneInfoList(zones, zc) ==
    [i \in 1..Len(zones) |->
        ZoneInfo(zones[i], get_zone_count(zc, zones[i].zone_id))]

\* The cache and the listing after get_zones ended as zr.
RespondZones(zr) ==
    /\ zones_cache' = zr.cache
    /\ load_count' = load_count + zr.loads
    /\ now' = now + 1
    /\ last_result' =
          [NoResult EXCEPT
             !.op = "zones", !.raised = zr.raised,
             !.body = IF zr.raised THEN <<"HTTP", 500>>
                      ELSE ZoneInfoList(zr.value, zone_counts)]
    /\ UNCHANGED <<call, snapshot, zones_file, vehicles, zone_counts, started, appended,
                   tasks, loop_owner>>

\* GET /zones
get_zones_info == RespondZones(get_zones(zones_cache, zones_file))

PostEvent ==
    /\ now <= MaxCalls
    /\ \E v \in VehicleIds, p \in EventPoints, ts \in TimestampInputs :
          post_location_event(v, p[1], p[2], ts)

GetStatus ==
    /\ now <= MaxCalls
    /\ \E v \in VehicleIds : get_vehicle_status(v)

GetZones ==
    /\ now <= MaxCalls
    /\ get_zones_info

Next == startup_event \/ PostEvent \/ GetStatus \/ GetZones

Spec == Init /\ [][Next]_vars

(***************************************************************************)
(* SpecHist: one vehicle driven for MaxHistEvents events against the       *)
(* default catalog: WarmUp free events, then the circuit Downtown ->       *)
(* Airport -> outside, every event of which is a transition.               *)
(***************************************************************************)
Circuit == <<P_downtown, P_airport, P_outside>>

HistInit == Init /\ zones_file = FileAbsent

HistEvent ==
    /\ now <= MaxHistEvents
    /\ \E p \in (IF now <= WarmUp THEN EventPoints
                 ELSE {Circuit[(now % 3) + 1]}) :
       \E ts \in (IF now <= WarmUp THEN TimestampInputs \cup {ClientTime}
                  ELSE {Omitted}) :
          post_location_event("v1", p[1], p[2], ts)

HistNext == HistEvent

SpecHist == HistInit /\ [][HistNext]_vars

(***************************************************************************)
(* SpecConc: MaxTasks requests in flight at once.  post_location_event is  *)
(* a coroutine of the event loop (main.py line 55, async def); its body    *)
(* (main.py lines 67-77, logic.py lines 69-106) is taken statement by      *)
(* statement.  The event loop runs one coroutine at a time and gives the   *)
(* loop to another one only where the running one awaits.                  *)
(***************************************************************************)
\* A handler that may lose the processor at every position (a plain def
\* run in the thread pool).
HandlerYields_Threaded(pc) == TRUE

\* Whether the handler awaits at position pc: its body holds no await.
HandlerYields(pc) == FALSE

InFlight(t) == tasks[t].pc \notin {"idle", "done"}

\* A request arrives: the LocationEvent is built (timestamp defaults to the
\* clock) and the handler waits for the loop.
Arrive(t, vehicle_id, latitude, longitude) ==
    /\ tasks[t].pc = "idle"
    /\ \A u \in TaskIds : u < t => tasks[u].pc # "idle"
    /\ tasks' = [tasks EXCEPT ![t] =
                    [IdleTask EXCEPT
                       !.pc = "ready",
                       !.event = LocationEvent(vehicle_id, latitude,
                                               longitude, now),
                       !.overlapped = \E u \in TaskIds \ {t} : InFlight(u)]]
    /\ now' = now + 1
    /\ UNCHANGED <<call, snapshot, zones_file, zones_cache, vehicles, zone_counts, started,
                   load_count, last_result, appended, loop_owner>>

\* The event loop runs (or resumes) t.
Dispatch(t) ==
    /\ InFlight(t)
    /\ loop_owner # t
    /\ \A u \in TaskIds : loop_owner = u => HandlerYields(tasks[u].pc)
    /\ loop_owner' = t
    /\ tasks' = [tasks EXCEPT ![t].pc = IF @ = "ready" THEN "L70" ELSE @]
    /\ UNCHANGED <<call, snapshot, zones_file, zones_cache, vehicles, zone_counts, started,
                   load_count, now, last_result, appended>>

Running(t, pc) == loop_owner = t /\ tasks[t].pc = pc

\* logic.py lines 70-75
StepFetch(t) ==
    /\ Running(t, "L70")
    /\ vehicles' = get_vehicle(vehicles, tasks[t].event.vehicle_id)
    /\ tasks' = [tasks EXCEPT
                   ![t].pc = "L78",
                   ![t].lat = normalize_coordinate(tasks[t].event.latitude),
                   ![t].lng = normalize_coordinate(tasks[t].event.longitude),
                   ![t].old_zone_id =
                       vehicles'[tasks[t].event.vehicle_id].current_zone]
    /\ UNCHANGED <<call, snapshot, zones_file, zones_cache, zone_counts, started, load_count,
                   now, last_result, appended, loop_owner>>

\* logic.py lines 79-91, with zr what get_zones returned
Located(t, zr, new_zone_id) ==
    /\ zones_cache' = zr.cache
    /\ load_count' = load_count + zr.loads
    /\ tasks' = [tasks EXCEPT
                   ![t].pc = "L94",
                   ![t].new_zone_id = new_zone_id,
                   ![t].transition = Classify(tasks[t].old_zone_id, new_zone_id)]

\* logic.py line 78 raised: the exception leaves process_location_event.
LoadFailed(t, zr) ==
    /\ zones_cache' = zr.cache
    /\ load_count' = load_count + zr.loads
    /\ tasks' = [tasks EXCEPT ![t].pc = "ret", ![t].raised = TRUE]

LocateWith(t, zr) ==
    IF zr.raised THEN LoadFailed(t, zr)
    ELSE Located(t, zr, ZoneIdOf(find_zone(tasks[t].lat, tasks[t].lng, zr.value)))

\* logic.py lines 78-91
StepLocate(t) ==
    /\ Running(t, "L78")
    /\ LocateWith(t, get_zones(zones_cache, zones_file))
    /\ UNCHANGED <<call, snapshot, zones_file, vehicles, zone_counts, started, now,
                   last_result, appended, loop_owner>>

EventTime(event, utcnow) ==
    IF event.timestamp # NoTime THEN event.timestamp ELSE utcnow

\* logic.py lines 94-97
StepUpdateLocation(t) ==
    /\ Running(t, "L94")
    /\ vehicles' = [vehicles EXCEPT ![tasks[t].event.vehicle_id] =
                       update_location(@, tasks[t].lat, tasks[t].lng,
                                       EventTime(tasks[t].event, now))]
    /\ tasks' = [tasks EXCEPT
                   ![t].timestamp = EventTime(tasks[t].event, now),
                   ![t].pc = IF tasks[t].transition # None THEN "L98"
                             ELSE "ret"]
    /\ UNCHANGED <<call, snapshot, zones_file, zones_cache, zone_counts, started, load_count,
                   now, last_result, appended, loop_owner>>

\* logic.py line 98
StepUpdateZone(t) ==
    /\ Running(t, "L98")
    /\ vehicles' = [vehicles EXCEPT ![tasks[t].event.vehicle_id] =
                       update_zone(@, tasks[t].new_zone_id,
                                   tasks[t].transition, tasks[t].timestamp)]
    /\ appended' = [appended EXCEPT ![tasks[t].event.vehicle_id] =
                       Append(@, TransitionRecord(
                                    tasks[t].transition,
                                    vehicles[tasks[t].event.vehicle_id].current_zone,
                                    tasks[t].new_zone_id, tasks[t].timestamp))]
    /\ tasks' = [tasks EXCEPT
                   ![t].pc = IF Truthy(tasks[t].old_zone_id) THEN "L69r"
                             ELSE IF Truthy(tasks[t].new_zone_id) THEN "L71r"
                             ELSE "ret"]
    /\ UNCHANGED <<call, snapshot, zones_file, zones_cache, zone_counts, started, load_count,
                   now, last_result, loop_owner>>

\* state.py line 69, the read: self._zone_counts.get(old_zone, 0)
StepDecRead(t) ==
    /\ Running(t, "L69r")
    /\ tasks' = [tasks EXCEPT
                   ![t].pc = "L69w",
                   ![t].count = get_zone_count(zone_counts, tasks[t].old_zone_id)]
    /\ UNCHANGED <<call, snapshot, zones_file, zones_cache, vehicles, zone_counts, started,
                   load_count, now, last_result, appended, loop_owner>>

\* state.py line 69, the store: self._zone_counts[old_zone] = max(0, ... - 1)
StepDecWrite(t) ==
    /\ Running(t, "L69w")
    /\ zone_counts' = SetCount(zone_counts, tasks[t].old_zone_id,
                               MaxInt(0, tasks[t].count - 1))
    /\ tasks' = [tasks EXCEPT
                   ![t].pc = IF Truthy(tasks[t].new_zone_id) THEN "L71r"
                             ELSE "ret"]
    /\ UNCHANGED <<call, snapshot, zones_file, zones_cache, vehicles, started, load_count,
                   now, last_result, appended, loop_owner>>

\* state.py line 71, the read: self._zone_counts.get(new_zone, 0)
StepIncRead(t) ==
    /\ Running(t, "L71r")
    /\ tasks' = [tasks EXCEPT
                   ![t].pc = "L71w",
                   ![t].count = get_zone_count(zone_counts, tasks[t].new_zone_id)]
    /\ UNCHANGED <<call, snapshot, zones_file, zones_cache, vehicles, zone_counts, started,
                   load_count, now, last_result, appended, loop_owner>>

\* state.py line 71, the store: self._zone_counts[new_zone] = ... + 1
StepIncWrite(t) ==
    /\ Running(t, "L71w")
    /\ zone_counts' = SetCount(zone_counts, tasks[t].new_zone_id,
                               tasks[t].count + 1)
    /\ tasks' = [tasks EXCEPT ![t].pc = "ret"]
    /\ UNCHANGED <<call, snapshot, zones_file, zones_cache, vehicles, started, load_count,
                   now, last_result, appended, loop_owner>>

\* logic.py line 106 and main.py lines 70-84: the response is sent and the
\* coroutine ends.
StepReturn(t) ==
    /\ Running(t, "ret")
    /\ tasks' = [tasks EXCEPT ![t].pc = "done"]
    /\ loop_owner' = NoTask
    /\ last_result' =
          [NoResult EXCEPT
             !.op = "event", !.vehicle_id = tasks[t].event.vehicle_id,
             !.raised = tasks[t].raised,
             !.new_zone_id = tasks[t].new_zone_id,
             !.transition = tasks[t].transition]
    /\ UNCHANGED <<call, snapshot, zones_file, zones_cache, vehicles, zone_counts, started,
                   load_count, now, appended>>

ConcInit == Init /\ zones_file \in {FileAbsent, FileOtherShape}

ConcNext ==
    \E t \in TaskIds :
        \/ \E v \in VehicleIds, p \in EventPoints : Arrive(t, v, p[1], p[2])
        \/ Dispatch(t)
        \/ StepFetch(t)
        \/ StepLocate(t)
        \/ StepUpdateLocation(t)
        \/ StepUpdateZone(t)
        \/ StepDecRead(t)
        \/ StepDecWrite(t)
        \/ StepIncRead(t)
        \/ StepIncWrite(t)
        \/ StepReturn(t)

SpecConc == ConcInit /\ [][ConcNext]_vars

(***************************************************************************)
(* SpecPure: the functions of the service that read nothing but their      *)
(* arguments (normalize_coordinate, find_zone, Zone.contains), each called *)
(* MaxPureCalls times in a row on one choice of arguments.                 *)
(***************************************************************************)
\* Longest token built from TokenChars.
MaxTokenLen == 4

\* Number of calls made with the arguments chosen.
MaxPureCalls == 2

TokenChars == {"0", "1", "8", ".", "-", "+", " "}

ShortTokens == UNION {[1..n -> TokenChars] : n \in 0..MaxTokenLen}

\* Null, the invalid patterns in other cases and with blanks around them,
\* exponents, infinities, nans with a sign, and the tokens of the tests.
NamedTokens ==
    { NullToken,
      <<"D", "$", "Q">>, <<" ", "d", "$", "Q", "\t">>, <<"\t", "-", " ">>,
      <<" ", "\t">>, <<"N", "A", "N">>, <<"n", "a", "n">>,
      <<" ", "N", "a", "N">>, <<"N", "O", "N", "E">>, <<"N", "o", "n", "e", " ">>,
      <<"N", "U", "L", "L">>, <<"\t", "n", "u", "l", "l">>,
      <<"-", "n", "a", "n">>, <<"+", "N", "a", "N">>,
      <<"i", "n", "f">>, <<"-", "I", "n", "f">>,
      <<"I", "n", "f", "i", "n", "i", "t", "y">>,
      <<"1", "e", "2">>, <<"1", "E", "3">>, <<"1", ".", "8", "e", "2">>,
      <<"1", "8", "0", "1", "e", "-", "1">>, <<"1", "8", "e", "+", "1">>,
      <<"1", "e">>, <<"e", "1">>,
      <<"3", "7", ".", "7", "7", "4", "9">>,
      <<"-", "1", "2", "2", ".", "4", "1", "9", "4">>,
      <<"2", "0", "0">>, <<"-", "2", "0", "0">>,
      <<"a", "b", "c">>, <<"1", "2", ".", "3", "4", ".", "5", "6">>,
      <<"N", "O", "N", "E", "S">>, <<"D", "$", "Q", "1">> }

CoordTokens == ShortTokens \cup NamedTokens

NormalizeCalls ==
    {[NoCall EXCEPT !.fn = "normalize_coordinate", !.token = t] :
        t \in CoordTokens}

\* The zone of TestZoneContains, a zone that is a single point, and a zone
\* whose latitude bounds are swapped.
TestZone ==
    Zone("test_zone", "Test", Dec(37, 0), Dec(38, 0), Dec(-123, 0), Dec(-122, 0))

PointZone == Zone("dot", "Dot", Dec(0, 0), Dec(0, 0), Dec(0, 0), Dec(0, 0))

SwappedZone ==
    Zone("swapped", "Swapped", Dec(2, 0), Dec(1, 0), Dec(1, 0), Dec(2, 0))

ContainsZones ==
    {TestZone, PointZone, SwappedZone, _get_default_zones[1],
     _get_default_zones[2]}

\* A float with at most four decimals, in units of 0.0001.
Scaled(x) == x.m * Pow10(x.e + 4)

\* Values just below, on, between, on and just above the bounds lo and hi.
EdgeValues(lo, hi) ==
    { Dec(Scaled(lo) - 1, -4), lo, Dec((Scaled(lo) + Scaled(hi)) \div 2, -4),
      hi, Dec(Scaled(hi) + 1, -4) }

ContainsCalls ==
    UNION { {[NoCall EXCEPT !.fn = "contains", !.zones = <<z>>,
                            !.lat = lat, !.lng = lng] :
                lat \in EdgeValues(z.min_lat, z.max_lat),
                lng \in EdgeValues(z.min_lng, z.max_lng)} :
            z \in ContainsZones }

RECURSIVE Reverse(_)
Reverse(s) == IF s = <<>> THEN s ELSE Append(Reverse(Tail(s)), Head(s))

FindCatalogs ==
    { <<>>, _get_default_zones, Reverse(_get_default_zones), ListCatalog,
      Reverse(ListCatalog), DictCatalog }

FindLats ==
    { Dec(3778, -2), Dec(377, -1), Dec(37625, -3), Dec(0, 0), Dec(3777, -2),
      Dec(378, -1), PyNaN }

FindLngs ==
    { Dec(-12241, -2), Dec(-1225, -1), Dec(-122375, -3), Dec(0, 0),
      Dec(-12242, -2) }

FindZoneCalls ==
    {[NoCall EXCEPT !.fn = "find_zone", !.zones = c, !.lat = lat, !.lng = lng] :
        c \in FindCatalogs, lat \in FindLats, lng \in FindLngs}

PureCalls == NormalizeCalls \cup ContainsCalls \cup FindZoneCalls

PureInit ==
    /\ call \in PureCalls
    /\ zones_file = FileAbsent
    /\ zones_cache = NoCache
    /\ vehicles = <<>>
    /\ zone_counts = <<>>
    /\ started = FALSE
    /\ load_count = 0
    /\ now = 1
    /\ last_result = NoResult
    /\ appended = [v \in VehicleIds |-> <<>>]
    /\ tasks = [t \in TaskIds |-> IdleTask]
    /\ loop_owner = NoTask
    /\ snapshot = NoSnapshot

\* The value a call returned.
Answer(v) ==
    /\ last_result' = [NoResult EXCEPT !.op = call.fn, !.body = v]
    /\ now' = now + 1
    /\ UNCHANGED <<call, snapshot, zones_file, zones_cache, vehicles, zone_counts,
                   started, load_count, appended, tasks, loop_owner>>

NormalizeCall ==
    /\ call.fn = "normalize_coordinate"
    /\ now <= MaxPureCalls
    /\ Answer(normalize_coordinate(call.token))

FindZoneCall ==
    /\ call.fn = "find_zone"
    /\ now <= MaxPureCalls
    /\ Answer(find_zone(call.lat, call.lng, call.zones))

ContainsCall ==
    /\ call.fn = "contains"
    /\ now <= MaxPureCalls
    /\ Answer(contains(call.zones[1], call.lat, call.lng))

PureNext == NormalizeCall \/ FindZoneCall \/ ContainsCall

SpecPure == PureInit /\ [][PureNext]_vars

(***************************************************************************)
(* SpecSnap: one vehicle, and a caller that keeps the VehicleStatus it is  *)
(* given by get_vehicle_status and appends records of its own to the       *)
(* snapshot's transition_history.                                          *)
(***************************************************************************)
\* Number of requests and caller edits in a run of SpecSnap.
MaxSnapCalls == 5

\* A record the caller writes into its snapshot.
CallerRecord == TransitionRecord("EDITED", None, None, NoTime)

SnapInit ==
    /\ zones_file = FileAbsent
    /\ zones_cache = NoCache
    /\ vehicles = <<>>
    /\ zone_counts = <<>>
    /\ started = FALSE
    /\ load_count = 0
    /\ now = 1
    /\ last_result = NoResult
    /\ appended = [v \in VehicleIds |-> <<>>]
    /\ tasks = [t \in TaskIds |-> IdleTask]
    /\ loop_owner = NoTask
    /\ call = NoCall
    /\ snapshot = [NoSnapshot EXCEPT !.keep = TRUE]

SnapEvent ==
    /\ now <= MaxSnapCalls
    /\ \E p \in {P_downtown, P_airport, P_outside} :
          post_location_event("v1", p[1], p[2], Omitted)

TakeSnapshot ==
    /\ now <= MaxSnapCalls
    /\ get_vehicle_status("v1")

\* The store after the caller appended rec to the list ref: the vehicle's own
\* list grows when ref is that list.
StoreAfterEdit(vs, vehicle_id, ref, rec) ==
    IF ref.live
    THEN [vs EXCEPT ![vehicle_id].transition_history = Append(@, rec)]
    ELSE vs

\* snapshot.transition_history.append(CallerRecord), done by the caller.
EditSnapshot ==
    /\ now <= MaxSnapCalls
    /\ snapshot.taken
    /\ snapshot' = [snapshot EXCEPT
                      !.history.items = Append(@, CallerRecord),
                      !.edits = Append(@, CallerRecord)]
    /\ vehicles' = StoreAfterEdit(vehicles, snapshot.vehicle_id,
                                  snapshot.history, CallerRecord)
    /\ now' = now + 1
    /\ UNCHANGED <<call, zones_file, zones_cache, zone_counts, started,
                   load_count, last_result, appended, tasks, loop_owner>>

SnapNext == SnapEvent \/ TakeSnapshot \/ EditSnapshot

SpecSnap == SnapInit /\ [][SnapNext]_vars

(***************************************************************************)
(* Properties                                                              *)
(***************************************************************************)
\* A step of Spec or SpecHist that served POST /events/location.
EventStep == last_result'.op = "event" /\ now' = now + 1

\* The vehicle's current_zone and history before the step (a vehicle not
\* in the store yet has none).
PriorZone(v) == IF v \in DOMAIN vehicles THEN vehicles[v].current_zone ELSE None

PriorHistory(v) ==
    IF v \in DOMAIN vehicles THEN vehicles[v].transition_history ELSE <<>>

\* The id of the first zone of the cached catalog containing (lat, lng).
LocatedId(lat, lng) ==
    IF \E i \in 1..Len(zones_cache.zones) :
          contains(zones_cache.zones[i], lat, lng)
    THEN zones_cache.zones[
            CHOOSE i \in 1..Len(zones_cache.zones) :
               /\ contains(zones_cache.zones[i], lat, lng)
               /\ \A j \in 1..(i - 1) : ~contains(zones_cache.zones[j], lat, lng)
         ].zone_id
    ELSE None

\* The event that was served last returned a result.
EventReturned == last_result.op = "event" /\ ~last_result.raised

\* C1: the transition returned for an event is decided by the pair (the
\* vehicle's current_zone before the event, the zone located for the event)
\* alone: ENTER iff prior is none and located is a zone, EXIT iff prior is a
\* zone and located is none, CHANGE iff both are zones and differ, no
\* transition iff they are equal.
C1_TransitionFromPair ==
    [][ (EventStep /\ ~last_result'.raised) =>
          LET prior   == PriorZone(last_result'.vehicle_id)
              located == last_result'.new_zone_id
              tr      == last_result'.transition
          IN  /\ tr = ENTER <=> (prior = None /\ located # None)
              /\ tr = EXIT <=> (prior # None /\ located = None)
              /\ tr = CHANGE <=> (prior # None /\ located # None
                                  /\ prior # located)
              /\ tr = None <=> prior = located ]_vars

\* C1 witness: a CHANGE was returned to a vehicle with an earlier record.
C1_Witness ==
    /\ EventReturned
    /\ last_result.transition = CHANGE
    /\ Len(vehicles[last_result.vehicle_id].transition_history) >= 2

\* C2: the occupancy count of every zone is never negative.
C2_CountsNonNegative == \A z \in DOMAIN zone_counts : zone_counts[z] >= 0

\* C2 witness: a vehicle has left a zone, whose count was decremented to 0.
C2_Witness ==
    /\ EventReturned
    /\ last_result.transition \in {EXIT, CHANGE}
    /\ last_result.locals.old_zone_id \in DOMAIN zone_counts
    /\ zone_counts[last_result.locals.old_zone_id] = 0

\* C3 (as claimed): on every transition, for every zone id, the old zone's
\* count becomes max(0, count - 1), the new zone's count becomes count + 1
\* and every other count is unchanged.
C3_CountsFollowTransition ==
    [][ (EventStep /\ ~last_result'.raised /\ last_result'.transition # None) =>
          LET old == PriorZone(last_result'.vehicle_id)
              new == last_result'.new_zone_id
          IN  \A z \in (DOMAIN zone_counts' \cup {old, new}) \ {None} :
                 get_zone_count(zone_counts', z) =
                    IF z = old THEN MaxInt(0, get_zone_count(zone_counts, z) - 1)
                    ELSE IF z = new THEN get_zone_count(zone_counts, z) + 1
                    ELSE get_zone_count(zone_counts, z) ]_vars

\* C4: an event without a transition leaves the vehicle's current_zone and
\* transition_history and every occupancy count as they were.
C4_NoTransitionNoChange ==
    [][ (EventStep /\ ~last_result'.raised /\ last_result'.transition = None) =>
          LET v == last_result'.vehicle_id
          IN  /\ vehicles'[v].current_zone = PriorZone(v)
              /\ vehicles'[v].transition_history = PriorHistory(v)
              /\ appended' = appended
              /\ DOMAIN zone_counts' = DOMAIN zone_counts
              /\ \A z \in DOMAIN zone_counts : zone_counts'[z] = zone_counts[z]
      ]_vars

\* C4 witness: a vehicle inside a zone reported a point of the same zone.
C4_Witness ==
    /\ EventReturned
    /\ last_result.transition = None
    /\ last_result.new_zone_id # None
    /\ Len(vehicles[last_result.vehicle_id].transition_history) = 1
    /\ zone_counts # <<>>

\* C7: a vehicle's history holds at most HISTORY_LIMIT records, the most
\* recent ones of all that were appended, oldest first.
C7_HistoryBounded ==
    \A v \in DOMAIN vehicles :
       LET h == vehicles[v].transition_history
           a == appended[v]
       IN  /\ Len(h) = MinInt(Len(a), 100)
           /\ \A i \in 1..Len(h) : h[i] = a[Len(a) - Len(h) + i]

\* C7 witness: more than 100 transitions of one vehicle have occurred.
C7_Witness ==
    /\ "v1" \in DOMAIN vehicles
    /\ Len(appended["v1"]) > 100
    /\ Len(vehicles["v1"].transition_history) = 100

\* C8: the zone id returned equals the vehicle's stored current_zone, and
\* both are the zone located for the event's normalized point.
C8_ReturnedZoneIsStored ==
    EventReturned =>
       /\ last_result.new_zone_id =
             vehicles[last_result.vehicle_id].current_zone
       /\ last_result.new_zone_id =
             LocatedId(
                normalize_coordinate(
                   normalize_coordinates(last_result.locals.raw[1])),
                normalize_coordinate(
                   normalize_coordinates(last_result.locals.raw[2])))

\* C8 witness: an EXIT was returned and the stored zone is none.
C8_Witness ==
    /\ EventReturned
    /\ last_result.transition = EXIT
    /\ vehicles[last_result.vehicle_id].current_zone = None

\* C9: an event of vehicle v changes no other vehicle's state and adds or
\* removes no other store entry.
C9_OtherVehiclesUntouched ==
    [][ EventStep =>
          \A u \in (DOMAIN vehicles \cup DOMAIN vehicles')
                      \ {last_result'.vehicle_id} :
             /\ u \in DOMAIN vehicles /\ u \in DOMAIN vehicles'
             /\ vehicles'[u] = vehicles[u] ]_vars

\* C9 witness: a transition of one vehicle while another one is in a zone.
C9_Witness ==
    /\ EventReturned
    /\ last_result.transition # None
    /\ \E u \in DOMAIN vehicles \ {last_result.vehicle_id} :
          vehicles[u].current_zone # None

\* What process_location_event does with any vehicle id and any pair of
\* tokens: it ends with an exception only when the zone catalog cannot be
\* loaded, the coordinates it works with are floats, and a vehicle never seen
\* before is created with no zone and no history before the classification.
TotalWhenCatalogLoads ==
    last_result.op = "event" =>
       /\ last_result.raised => load_zones(zones_file).raised
       /\ last_result.locals.lat.kind \in {"num", "nan"}
       /\ last_result.locals.lng.kind \in {"num", "nan"}
       /\ last_result.locals.was_new =>
             /\ last_result.locals.fetched.current_zone = None
             /\ last_result.locals.fetched.transition_history = <<>>
             /\ last_result.locals.old_zone_id = None
       /\ last_result.vehicle_id \in DOMAIN vehicles

\* C10: process_location_event returns a result without raising for every
\* vehicle id and every pair of raw coordinate tokens, and a vehicle never
\* seen before is created with no zone and no history before the
\* classification.
C10_Total ==
    last_result.op = "event" =>
       /\ ~last_result.raised
       /\ last_result.locals.was_new =>
             /\ last_result.locals.fetched.current_zone = None
             /\ last_result.locals.fetched.transition_history = <<>>
             /\ last_result.locals.old_zone_id = None

\* C11 (as claimed): the ids in the vehicle store are the ids of the
\* vehicles an event was processed for: an entry is added only by an event of
\* its own id, every event leaves its vehicle in the store, and no entry is
\* ever removed.
C11_StoreHoldsEventVehicles ==
    [][ /\ DOMAIN vehicles \subseteq DOMAIN vehicles'
        /\ \A v \in DOMAIN vehicles' \ DOMAIN vehicles :
              EventStep /\ last_result'.vehicle_id = v
        /\ EventStep => last_result'.vehicle_id \in DOMAIN vehicles' ]_vars

\* C12 (as claimed): an event whose processing ends with an exception is
\* answered with the internal failure and leaves the vehicle store and the
\* occupancy counts exactly as they were before the call.
C12_FailedEventLeavesState ==
    [][ (EventStep /\ last_result'.raised) =>
          /\ last_result'.body = <<"HTTP", 500>>
          /\ DOMAIN vehicles' = DOMAIN vehicles
          /\ \A v \in DOMAIN vehicles : vehicles'[v] = vehicles[v]
          /\ DOMAIN zone_counts' = DOMAIN zone_counts
          /\ \A z \in DOMAIN zone_counts : zone_counts'[z] = zone_counts[z]
      ]_vars

\* C13 (as claimed): once startup has run with a zones.json that is present
\* but cannot be loaded, no location event is accepted for processing.
C13_StartupFatal ==
    [][ (started /\ zones_file.exists /\ load_zones(zones_file).raised)
           => ~EventStep ]_vars

Malformed(tok) ==
    \/ tok = NullToken
    \/ Upper(Strip(tok)) \in InvalidPatterns
    \/ ParseFloat(Upper(Strip(tok))).kind \in {"ValueError", "nan", "inf"}
    \/ PyGt(PyAbs(ParseFloat(Upper(Strip(tok)))), CoordLimit)

ZeroIfMalformed(tok) == IF Malformed(tok) THEN ZeroToken ELSE tok

\* The same request with 0.0 for each malformed token, processed on the
\* state before the step.
AsZeroed(vehicle_id, raw, ts) ==
    process_location_event(
        LocationEvent(vehicle_id, ZeroIfMalformed(raw[1]),
                      ZeroIfMalformed(raw[2]), ts),
        vehicles, zone_counts, zones_cache, zones_file, now)

\* The step ended and left the state as the call r0 does.
SameOutcome(r0) ==
    /\ last_result'.raised = r0.raised
    /\ last_result'.new_zone_id = r0.new_zone_id
    /\ last_result'.transition = r0.transition
    /\ vehicles' = r0.vehicles
    /\ DOMAIN zone_counts' = DOMAIN r0.zone_counts
    /\ \A z \in DOMAIN zone_counts' : zone_counts'[z] = r0.zone_counts[z]

\* The step served an event with a malformed token.
MalformedEventStep ==
    /\ EventStep
    /\ \/ Malformed(last_result'.locals.raw[1])
       \/ Malformed(last_result'.locals.raw[2])

\* A new vehicle with two malformed tokens, no zone of the catalog holding
\* (0, 0): no zone and no transition are returned.
OriginCase ==
    ( /\ ~last_result'.raised
      /\ last_result'.locals.was_new
      /\ Malformed(last_result'.locals.raw[1])
      /\ Malformed(last_result'.locals.raw[2])
      /\ \A i \in 1..Len(zones_cache'.zones) :
            ~contains(zones_cache'.zones[i], PyNum(0, 0), PyNum(0, 0)) )
       => last_result'.new_zone_id = None /\ last_result'.transition = None

\* C20 (as claimed): an event with a malformed latitude or longitude token
\* is answered, and leaves the state, exactly as the same event with 0.0 for
\* that coordinate; for a new vehicle and a catalog without a zone holding
\* (0, 0) it returns no zone and no transition.
C20_MalformedIsOrigin ==
    [][ MalformedEventStep =>
          /\ SameOutcome(AsZeroed(last_result'.vehicle_id,
                                  last_result'.locals.raw, now))
          /\ OriginCase ]_vars

\* What holds of malformed tokens: the same, for every token that float()
\* does not turn into nan.
MalformedIsOriginButNaN ==
    [][ ( /\ MalformedEventStep
          /\ last_result'.locals.lat.kind # "nan"
          /\ last_result'.locals.lng.kind # "nan" ) =>
          /\ SameOutcome(AsZeroed(last_result'.vehicle_id,
                                  last_result'.locals.raw, now))
          /\ OriginCase ]_vars

\* C22 (as claimed): load_zones is called at most once in the life of the
\* process, and every event is located against the catalog it returned.
C22_LoadedOnce ==
    /\ load_count <= 1
    /\ EventReturned =>
          /\ zones_cache.loaded
          /\ zones_cache.zones = load_zones(zones_file).value

\* What holds of the loads: a catalog that loads is read once by startup and
\* once more by the first get_zones, cached from then on, and every event is
\* located against it.
LoadedOncePerCaller ==
    /\ ~load_zones(zones_file).raised =>
          load_count <= (IF started THEN 1 ELSE 0)
                        + (IF zones_cache.loaded THEN 1 ELSE 0)
    /\ zones_cache.loaded => zones_cache.zones = load_zones(zones_file).value
    /\ EventReturned => zones_cache.loaded

\* The timestamp of an event whose timestamp field is ts, received when the
\* clock reads clock.
EventTimestamp(ts, clock) == IF ts \in {Omitted, NoTime} THEN clock ELSE ts

ListingOfCounter(body, zones, zc) ==
    /\ Len(body) = Len(zones)
    /\ \A i \in 1..Len(zones) :
          /\ body[i].zone_id = zones[i].zone_id
          /\ body[i].name = zones[i].name
          /\ body[i].vehicle_count =
                IF zones[i].zone_id \in DOMAIN zc THEN zc[zones[i].zone_id]
                ELSE 0

\* C24: the zone listing holds one entry per catalog zone, in catalog
\* order, with the Occupancy Counter's value for the zone id (0 when the
\* counter has none), and producing it changes neither the counter nor the
\* vehicle store.
C24_ListingFromCounter ==
    /\ []((last_result.op = "zones" /\ ~last_result.raised) =>
             ListingOfCounter(last_result.body, zones_cache.zones, zone_counts))
    /\ [][(last_result'.op = "zones" /\ now' = now + 1) =>
             /\ vehicles' = vehicles
             /\ zone_counts' = zone_counts]_vars

\* C24 witness: a listing of several zones, one counted and one that no
\* vehicle ever entered.
C24_Witness ==
    /\ last_result.op = "zones"
    /\ ~last_result.raised
    /\ \E i, j \in 1..Len(last_result.body) :
          /\ last_result.body[i].vehicle_count >= 1
          /\ last_result.body[j].vehicle_count = 0
          /\ last_result.body[j].zone_id \notin DOMAIN zone_counts

\* The vehicles of the store whose current_zone is z.
VehiclesIn(z) == {v \in DOMAIN vehicles : vehicles[v].current_zone = z}

ZonesInUse ==
    (DOMAIN zone_counts \cup {vehicles[v].current_zone : v \in DOMAIN vehicles})
       \ {None}

\* C25 (as claimed): the occupancy count of every zone is the number of
\* vehicles whose current_zone is that zone.
C25_CountIsOccupancy ==
    \A z \in ZonesInUse : get_zone_count(zone_counts, z) = Cardinality(VehiclesIn(z))

\* What holds of the counts: the same, for every zone whose id is not the
\* empty string.
CountIsOccupancyButEmptyId ==
    \A z \in ZonesInUse \ {""} :
       get_zone_count(zone_counts, z) = Cardinality(VehiclesIn(z))

\* A record whose kind matches its zones.
WellFormedRecord(r) ==
    /\ r.from_zone # r.to_zone
    /\ r.transition = ENTER <=> r.from_zone = None
    /\ r.transition = EXIT <=> r.to_zone = None
    /\ r.transition = CHANGE <=> (r.from_zone # None /\ r.to_zone # None)
    /\ r.transition \in {ENTER, EXIT, CHANGE}

\* h is a chain ending in zone.
ChainEndingIn(h, zone) ==
    /\ \A i \in 1..Len(h) : WellFormedRecord(h[i])
    /\ \A i \in 2..Len(h) : h[i].from_zone = h[i - 1].to_zone
    /\ h # <<>> => h[Len(h)].to_zone = zone

\* g is h with at most its oldest record dropped and at most one record
\* appended, every record kept being as it was.
ExtendsUnaltered(h, g) ==
    \E d, n \in {0, 1} :
       /\ Len(g) = Len(h) - d + n
       /\ Len(h) >= d
       /\ \A i \in 1..(Len(h) - d) : g[i] = h[i + d]

\* C26: every vehicle's transition_history is a chain: each record has
\* different from_zone and to_zone and the kind they call for, each record
\* starts where the one before it ended, the last one ends in the vehicle's
\* current_zone; and an event leaves the records already held as they were.
C26_HistoryIsChain ==
    /\ [](\A v \in DOMAIN vehicles :
             ChainEndingIn(vehicles[v].transition_history,
                           vehicles[v].current_zone))
    /\ [][\A v \in DOMAIN vehicles :
             ExtendsUnaltered(vehicles[v].transition_history,
                              vehicles'[v].transition_history)]_vars

\* C26 witness: a history that lost its oldest records to the limit, still
\* a chain from an EXIT to the EXIT that left the vehicle outside.
C26_Witness ==
    /\ "v1" \in DOMAIN vehicles
    /\ Len(appended["v1"]) >= HISTORY_LIMIT + 2
    /\ vehicles["v1"].transition_history[1].transition = EXIT
    /\ vehicles["v1"].transition_history[2].transition = ENTER
    /\ vehicles["v1"].transition_history[HISTORY_LIMIT].transition = EXIT
    /\ vehicles["v1"].current_zone = None

(***************************************************************************)
(* Properties of SpecSnap                                                  *)
(***************************************************************************)
\* C21: the history of a snapshot is a list of its own: it holds what the
\* vehicle's history held when the snapshot was made followed by what the
\* caller appended, whatever events came after; and a caller's edit of the
\* snapshot leaves the vehicle store as it was.
C21_SnapshotIsCopy ==
    /\ [](snapshot.taken =>
            /\ ~snapshot.history.live
            /\ snapshot.history.items = snapshot.original \o snapshot.edits)
    /\ [][snapshot'.edits # snapshot.edits => vehicles' = vehicles]_vars

\* C21 witness: the caller edited its snapshot and a later event appended a
\* record to the vehicle's history, which now differs from the snapshot's.
C21_Witness ==
    /\ snapshot.taken
    /\ snapshot.original # <<>>
    /\ snapshot.edits # <<>>
    /\ EventReturned
    /\ last_result.transition # None
    /\ Len(vehicles["v1"].transition_history) > Len(snapshot.original)

(***************************************************************************)
(* Properties of SpecPure                                                  *)
(***************************************************************************)
Normalized == last_result.op = "normalize_coordinate"

SameIgnoringCase(q, p) ==
    Len(q) = Len(p) /\ \A i \in 1..Len(p) : UpperChar(q[i]) = p[i]

\* tok is i blanks, then p in some mix of cases, then j blanks.
PaddedAs(tok, p, i, j) ==
    /\ i + j + Len(p) = Len(tok)
    /\ \A k \in 1..i : tok[k] \in Whitespace
    /\ \A k \in (Len(tok) - j + 1)..Len(tok) : tok[k] \in Whitespace
    /\ SameIgnoringCase(SubSeq(tok, i + 1, Len(tok) - j), p)

PaddedPattern(tok) ==
    \E p \in InvalidPatterns : \E i, j \in 0..Len(tok) : PaddedAs(tok, p, i, j)

\* C15: normalize_coordinate returns exactly 0.0 for null and for every
\* string that is, between surrounding blanks and in any mix of cases, one of
\* D$Q, -, the empty string, NAN, NONE, NULL.
C15_PatternsGiveZero ==
    (Normalized /\ (call.token = NullToken \/ PaddedPattern(call.token)))
       => last_result.body = PyNum(0, 0)

\* C15 witness: " d$Q<tab>" was normalized to 0.0.
C15_Witness ==
    /\ Normalized
    /\ call.token = <<" ", "d", "$", "Q", "\t">>
    /\ last_result.body = PyNum(0, 0)

\* float() of the token as normalize_coordinate hands it over.
Parsed(tok) == ParseFloat(Upper(Strip(tok)))

AbsInt(n) == IF n < 0 THEN -n ELSE n

\* |m * 10^e| > 180, on integers.
Exceeds180(v) ==
    IF v.kind = "inf" THEN TRUE
    ELSE IF v.e >= 0 THEN AbsInt(v.m) * Pow10(v.e) > 180
    ELSE AbsInt(v.m) > 180 * Pow10(-v.e)

\* C16: for every string that parses as a number, normalize_coordinate
\* returns 0.0 when the absolute value is greater than 180 and the parsed
\* value itself when it is at most 180.
C16_RangeOf180 ==
    (Normalized /\ call.token # NullToken
                /\ Parsed(call.token).kind \in {"num", "inf"})
       => last_result.body = IF Exceeds180(Parsed(call.token)) THEN PyNum(0, 0)
                             ELSE Parsed(call.token)

\* C16 witness: "-180" was returned as -180.0.
C16_Witness ==
    /\ Normalized
    /\ call.token = <<"-", "1", "8", "0">>
    /\ last_result.body = PyNum(-18, 1)

\* C17 (as claimed): for every input normalize_coordinate returns a finite
\* number, and 0.0 for a string the numeric parser rejects.
C17_TotalAndFinite ==
    Normalized =>
       /\ last_result.body.kind = "num"
       /\ (call.token # NullToken /\ Parsed(call.token).kind = "ValueError")
             => last_result.body = PyNum(0, 0)

\* What holds of every input: a float is returned, 0.0 for a string the
\* numeric parser rejects, and nan only for a nan literal with a sign.
TotalButNaN ==
    Normalized =>
       /\ last_result.body.kind \in {"num", "nan"}
       /\ (call.token # NullToken /\ Parsed(call.token).kind = "ValueError")
             => last_result.body = PyNum(0, 0)
       /\ last_result.body.kind = "nan" =>
             Upper(Strip(call.token)) \in
                {<<"-", "N", "A", "N">>, <<"+", "N", "A", "N">>}

\* The indices of the zones of a catalog that contain (lat, lng), on the
\* scaled integers.
Inside(zone, lat, lng) ==
    /\ lat.kind = "num" /\ lng.kind = "num"
    /\ Scaled(zone.min_lat) <= Scaled(lat) /\ Scaled(lat) <= Scaled(zone.max_lat)
    /\ Scaled(zone.min_lng) <= Scaled(lng) /\ Scaled(lng) <= Scaled(zone.max_lng)

Holders(zones, lat, lng) ==
    {i \in 1..Len(zones) : Inside(zones[i], lat, lng)}

\* C18: find_zone returns the zone of the smallest index among those whose
\* rectangle contains the point, none when there is no such zone, and the
\* same answer every time it is called with the same catalog and point.
C18_FirstInCatalogOrder ==
    /\ [](last_result.op = "find_zone" =>
            IF Holders(call.zones, call.lat, call.lng) = {}
            THEN last_result.body = NoZone
            ELSE \E i \in Holders(call.zones, call.lat, call.lng) :
                    /\ \A j \in Holders(call.zones, call.lat, call.lng) : i <= j
                    /\ last_result.body = call.zones[i])
    /\ [][(last_result.op = "find_zone" /\ last_result'.op = "find_zone")
             => last_result'.body = last_result.body]_vars

\* C18 witness: two zones of the catalog contain the point and the answer is
\* the first zone of the catalog, called twice.
C18_Witness ==
    /\ last_result.op = "find_zone"
    /\ now = 3
    /\ Cardinality(Holders(call.zones, call.lat, call.lng)) >= 2
    /\ 1 \in Holders(call.zones, call.lat, call.lng)
    /\ last_result.body = call.zones[1]

\* C19: a point is inside a zone iff min_lat <= lat <= max_lat and
\* min_lng <= lng <= max_lng, edges and corners included.
C19_InclusiveBounds ==
    last_result.op = "contains" =>
       (last_result.body <=> Inside(call.zones[1], call.lat, call.lng))

\* C19 witness: the corner (max_lat, min_lng) of a zone is inside it.
C19_Witness ==
    /\ last_result.op = "contains"
    /\ call.lat = call.zones[1].max_lat
    /\ call.lng = call.zones[1].min_lng
    /\ call.zones[1].min_lat # call.zones[1].max_lat
    /\ last_result.body = TRUE

(***************************************************************************)
(* Properties of SpecConc                                                  *)
(***************************************************************************)
AllDone == \A t \in TaskIds : tasks[t].pc = "done"

\* t is between the first and the last statement of its handler.
Executing(t) == tasks[t].pc \notin {"idle", "ready", "done"}

\* The orders in which the requests can be processed one after the other.
Orders ==
    {o \in [TaskIds -> TaskIds] : \A i, j \in TaskIds : i # j => o[i] # o[j]}

StoreOf(r) ==
    [vehicles |-> r.vehicles, zone_counts |-> r.zone_counts, cache |-> r.cache]

EmptyStore == [vehicles |-> <<>>, zone_counts |-> <<>>, cache |-> NoCache]

RECURSIVE SerialRun(_, _, _)
\* The store after the events of o[i], o[i+1], ... processed one at a time.
SerialRun(st, o, i) ==
    IF i > MaxTasks THEN st
    ELSE SerialRun(StoreOf(process_location_event(
                              tasks[o[i]].event, st.vehicles, st.zone_counts,
                              st.cache, zones_file, now)),
                   o, i + 1)

SameAsSerial(st) == st.vehicles = vehicles /\ st.zone_counts = zone_counts

Serializable == \E o \in Orders : SameAsSerial(SerialRun(EmptyStore, o, 1))

SameVehicle(t, u) ==
    /\ t # u
    /\ tasks[t].pc # "idle" /\ tasks[u].pc # "idle"
    /\ tasks[t].event.vehicle_id = tasks[u].event.vehicle_id

OtherVehicle(t, u) ==
    /\ t # u
    /\ tasks[t].pc # "idle" /\ tasks[u].pc # "idle"
    /\ tasks[t].event.vehicle_id # tasks[u].event.vehicle_id

ZonesOf(t) == {tasks[t].old_zone_id, tasks[t].new_zone_id} \ {None}

\* C5: two calls for the same vehicle are never both between their first
\* and last statement, and once all calls are done the vehicle store and
\* the counts are those of the events processed in some sequential order.
C5_SameVehicleSerial ==
    /\ \A t, u \in TaskIds :
          SameVehicle(t, u) => ~(Executing(t) /\ Executing(u))
    /\ (AllDone /\ \E t, u \in TaskIds : SameVehicle(t, u)) => Serializable

\* C5 witness: two requests of one vehicle were in flight together and
\* both were classified as transitions.
C5_Witness ==
    /\ AllDone
    /\ \E t, u \in TaskIds :
          /\ SameVehicle(t, u)
          /\ tasks[u].overlapped
          /\ tasks[t].transition # None /\ tasks[u].transition # None

\* C6: once all calls are done, with calls of different vehicles that
\* entered or left the same zone, the counts and the vehicle store are
\* those of the events processed in some sequential order.
C6_SharedCounterSerial ==
    (AllDone /\ \E t, u \in TaskIds :
                   OtherVehicle(t, u) /\ ZonesOf(t) \cap ZonesOf(u) # {})
       => Serializable

\* C6 witness: requests of two vehicles in flight together entered the
\* same zone, which counts both.
C6_Witness ==
    /\ AllDone
    /\ \E t, u \in TaskIds :
          /\ OtherVehicle(t, u)
          /\ tasks[u].overlapped
          /\ tasks[t].transition = ENTER /\ tasks[u].transition = ENTER
          /\ tasks[t].new_zone_id = tasks[u].new_zone_id
          /\ zone_counts[tasks[t].new_zone_id] = 2

(***************************************************************************)
(* leaderboard_ranker: calculate_countback (utils.py) and sort_players     *)
(* (rank.py), each called on its own with the values process_leaderboard   *)
(* builds.  Scores, totals and spends are floats holding whole numbers of  *)
(* points; a name is its sequence of characters.                           *)
(***************************************************************************)

\* A Python float and a Python int, by value.
PyFloat(v) == [kind |-> "float", v |-> v]

PyInt(v) == [kind |-> "int", v |-> v]

\* current_score = None before the first score is read.
NoScore == [kind |-> "None", v |-> 0]

max_length == 20

\* sorted(non_zero_scores, reverse=True): one score placed into a list
\* already in descending order.
RECURSIVE InsertDescending(_, _)
InsertDescending(sorted_scores, score) ==
    IF sorted_scores = <<>> THEN <<score>>
    ELSE IF Head(sorted_scores).v >= score.v
         THEN <<Head(sorted_scores)>> \o InsertDescending(Tail(sorted_scores), score)
         ELSE <<score>> \o sorted_scores

RECURSIVE sorted_reverse(_)
sorted_reverse(scores) ==
    IF scores = <<>> THEN <<>>
    ELSE InsertDescending(sorted_reverse(SubSeq(scores, 1, Len(scores) - 1)),
                          scores[Len(scores)])

\* The loop over sorted_scores: the locals after the scores left to read.
RECURSIVE CountLoop(_, _, _, _)
CountLoop(sorted_scores, current_score, current_count, countback) ==
    IF sorted_scores = <<>>
    THEN [current_score |-> current_score, current_count |-> current_count,
          countback |-> countback]
    ELSE IF current_score # NoScore /\ Head(sorted_scores).v = current_score.v
         THEN CountLoop(Tail(sorted_scores), current_score, current_count + 1,
                        countback)
         ELSE CountLoop(Tail(sorted_scores), Head(sorted_scores), 1,
                        IF current_score # NoScore
                        THEN countback \o <<current_score, PyInt(current_count)>>
                        ELSE countback)

\* while len(countback) < max_length: countback.append(0.0)
RECURSIVE PadCountback(_)
PadCountback(countback) ==
    IF Len(countback) < max_length
    THEN PadCountback(Append(countback, PyFloat(0)))
    ELSE countback

\* The countback list once the loop has ended and the last score is added.
WithLastScore(loop) ==
    IF loop.current_score # NoScore
    THEN loop.countback \o <<loop.current_score, PyInt(loop.current_count)>>
    ELSE loop.countback

calculate_countback(scores) ==
    IF scores = <<>> THEN <<PyFloat(0), PyInt(0)>>
    ELSE LET non_zero_scores == SelectSeq(scores, LAMBDA s : s.v > 0)
         IN  IF non_zero_scores = <<>> THEN <<PyFloat(0), PyInt(0)>>
             ELSE SubSeq(PadCountback(WithLastScore(
                             CountLoop(sorted_reverse(non_zero_scores),
                                       NoScore, 0, <<>>))),
                         1, max_length)

\* sum(event_scores)
RECURSIVE SumScores(_)
SumScores(scores) ==
    IF scores = <<>> THEN 0 ELSE Head(scores).v + SumScores(Tail(scores))

\* The player_data dict process_leaderboard builds for one row: the fields
\* sort_players reads, the scores, and the row it came from.
PlayerData(row, name, event_scores, spend) ==
    [row |-> row, name |-> name,
     total_points |-> PyFloat(SumScores(event_scores)),
     spend |-> spend,
     countback |-> calculate_countback(event_scores),
     event_scores |-> event_scores]

LowerLetters ==
    <<"a", "b", "c", "d", "e", "f", "g", "h", "i", "j", "k", "l", "m",
      "n", "o", "p", "q", "r", "s", "t", "u", "v", "w", "x", "y", "z">>

\* The code point of a letter.
Ord(c) ==
    IF c \in DOMAIN LowerToUpper
    THEN 96 + CHOOSE i \in 1..26 : LowerLetters[i] = c
    ELSE 64 + CHOOSE i \in 1..26 : LowerToUpper[LowerLetters[i]] = c

LowerChar(c) ==
    IF \E l \in DOMAIN LowerToUpper : LowerToUpper[l] = c
    THEN CHOOSE l \in DOMAIN LowerToUpper : LowerToUpper[l] = c
    ELSE c

\* str.lower()
str_lower(s) == [i \in 1..Len(s) |-> LowerChar(s[i])]

\* a < b on strings: by code point, a proper prefix first.
RECURSIVE StrLess(_, _)
StrLess(a, b) ==
    IF a = <<>> THEN b # <<>>
    ELSE IF b = <<>> THEN FALSE
    ELSE IF Head(a) # Head(b) THEN Ord(Head(a)) < Ord(Head(b))
    ELSE StrLess(Tail(a), Tail(b))

\* a < b on tuples of numbers: the first place that differs decides, a
\* proper prefix first.
RECURSIVE NumTupleLess(_, _)
NumTupleLess(a, b) ==
    IF a = <<>> THEN b # <<>>
    ELSE IF b = <<>> THEN FALSE
    ELSE IF Head(a).v # Head(b).v THEN Head(a).v < Head(b).v
    ELSE NumTupleLess(Tail(a), Tail(b))

\* a == b on tuples of numbers.
NumTupleEq(a, b) ==
    /\ Len(a) = Len(b)
    /\ \A i \in 1..Len(a) : a[i].v = b[i].v

\* -x on a float or an int.
Minus(x) == [x EXCEPT !.v = -x.v]

negated_countback(countback_tuple) ==
    [i \in 1..Len(countback_tuple) |-> Minus(countback_tuple[i])]

\* A sort key that compares the names as written.
sort_key_CaseSensitive(player) ==
    <<Minus(player.total_points), player.spend,
      negated_countback(player.countback), player.name>>

sort_key(player) ==
    <<Minus(player.total_points), player.spend,
      negated_countback(player.countback), str_lower(player.name)>>

\* k1 < k2 on the keys sort_key returns.
KeyLess(k1, k2) ==
    IF k1[1].v # k2[1].v THEN k1[1].v < k2[1].v
    ELSE IF k1[2].v # k2[2].v THEN k1[2].v < k2[2].v
    ELSE IF ~NumTupleEq(k1[3], k2[3]) THEN NumTupleLess(k1[3], k2[3])
    ELSE StrLess(k1[4], k2[4])

\* sorted(players, key=sort_key) is stable: a player goes after every
\* player already placed whose key is not greater than its own.
RECURSIVE InsertByKey(_, _)
InsertByKey(placed, player) ==
    IF placed = <<>> THEN <<player>>
    ELSE IF KeyLess(sort_key(player), sort_key(Head(placed)))
         THEN <<player>> \o placed
         ELSE <<Head(placed)>> \o InsertByKey(Tail(placed), player)

RECURSIVE sort_players(_)
sort_players(players) ==
    IF players = <<>> THEN <<>>
    ELSE InsertByKey(sort_players(SubSeq(players, 1, Len(players) - 1)),
                     players[Len(players)])

\* Longest list of scores built from ScoreValues.
MaxScores == 3

\* Most players in a leaderboard.
MaxPlayers == 3

ScoreValues == {-1, 0, 1, 2}

ShortScoreLists ==
    UNION {[1..n -> {PyFloat(v) : v \in ScoreValues}] : n \in 0..MaxScores}

\* Ten distinct scores (the tuple is full), eleven (it is truncated),
\* twelve with repeats and a zero, and eleven with a negative score.
TenDistinct == [i \in 1..10 |-> PyFloat(((i * 3) % 10) + 1)]

ElevenDistinct == [i \in 1..11 |-> PyFloat(((i * 7) % 11) + 1)]

TwelveRepeated == [i \in 1..16 |-> PyFloat((i * 5) % 13)]

LongScoreLists ==
    {TenDistinct, ElevenDistinct, TwelveRepeated,
     Append(ElevenDistinct, PyFloat(-3))}

CountbackCalls ==
    {[fn |-> "calculate_countback", scores |-> s, players |-> <<>>] :
        s \in ShortScoreLists \cup LongScoreLists}

FloatList(values) == [i \in 1..Len(values) |-> PyFloat(values[i])]

\* Rows of a sheet with two events: name, scores, spend.  They tie and
\* differ on each key in turn: names that differ only in case, a name that
\* starts another, equal totals with different countbacks, a total of zero
\* with and without a positive score.
SheetRows ==
    {<< <<"a">>, <<2, 0>>, 0 >>,
     << <<"A">>, <<0, 2>>, 0 >>,
     << <<"B">>, <<2, 0>>, 0 >>,
     << <<"B">>, <<1, 1>>, 0 >>,
     << <<"a", "b">>, <<1, 1>>, 0 >>,
     << <<"a">>, <<1, 1>>, 1 >>,
     << <<"a">>, <<0, 0>>, 0 >>,
     << <<"B">>, <<-1, 1>>, 0 >>,
     << <<"A">>, <<2, 2>>, 1 >>}

Sheets == UNION {[1..n -> SheetRows] : n \in 0..MaxPlayers}

PlayersOf(sheet) ==
    [i \in 1..Len(sheet) |->
        PlayerData(i, sheet[i][1], FloatList(sheet[i][2]), PyFloat(sheet[i][3]))]

SortCalls ==
    {[fn |-> "sort_players", scores |-> <<>>, players |-> PlayersOf(s)] :
        s \in Sheets}

RankCalls == CountbackCalls \cup SortCalls

RankInit ==
    /\ call \in RankCalls
    /\ zones_file = FileAbsent
    /\ zones_cache = NoCache
    /\ vehicles = <<>>
    /\ zone_counts = <<>>
    /\ started = FALSE
    /\ load_count = 0
    /\ now = 1
    /\ last_result = NoResult
    /\ appended = [v \in VehicleIds |-> <<>>]
    /\ tasks = [t \in TaskIds |-> IdleTask]
    /\ loop_owner = NoTask
    /\ snapshot = NoSnapshot

CountbackCall ==
    /\ call.fn = "calculate_countback"
    /\ now <= MaxPureCalls
    /\ Answer(calculate_countback(call.scores))

SortPlayersCall ==
    /\ call.fn = "sort_players"
    /\ now <= MaxPureCalls
    /\ Answer(sort_players(call.players))

RankNext == CountbackCall \/ SortPlayersCall

SpecRank == RankInit /\ [][RankNext]_vars

\* The call made has returned.
CallReturned(fn) == last_result.op = fn

\* p and q are equal on the four ranking keys.
SameKeys(p, q) ==
    /\ p.total_points.v = q.total_points.v
    /\ p.spend.v = q.spend.v
    /\ NumTupleEq(p.countback, q.countback)
    /\ Upper(p.name) = Upper(q.name)

\* Tuple a is higher than tuple b: at the first place where they differ a
\* holds the greater number, or b is a proper start of a.
HigherTuple(a, b) ==
    \/ \E i \in 1..MinInt(Len(a), Len(b)) :
          /\ \A j \in 1..(i - 1) : a[j].v = b[j].v
          /\ a[i].v > b[i].v
    \/ /\ Len(a) > Len(b)
       /\ \A j \in 1..Len(b) : a[j].v = b[j].v

\* Name a comes before name b, the case of the letters ignored.
NameBefore(a, b) ==
    LET x == Upper(a)
        y == Upper(b)
    IN  \/ \E i \in 1..MinInt(Len(x), Len(y)) :
              /\ \A j \in 1..(i - 1) : x[j] = y[j]
              /\ Ord(x[i]) < Ord(y[i])
        \/ /\ Len(x) < Len(y)
           /\ \A j \in 1..Len(x) : x[j] = y[j]

\* The ranking rules put p strictly before q.
RanksBefore(p, q) ==
    \/ p.total_points.v > q.total_points.v
    \/ /\ p.total_points.v = q.total_points.v
       /\ \/ p.spend.v < q.spend.v
          \/ /\ p.spend.v = q.spend.v
             /\ \/ HigherTuple(p.countback, q.countback)
                \/ /\ NumTupleEq(p.countback, q.countback)
                   /\ NameBefore(p.name, q.name)

\* C27: sort_players returns a permutation of its input, ordered by total
\* points descending, then spend ascending, then countback tuple descending
\* (lexicographic, higher first), then name ascending ignoring case; players
\* equal on all four keys keep the order they had in the input.
C27_SortedByRankingRules ==
    CallReturned("sort_players") =>
        LET p == call.players
            r == last_result.body
        IN  /\ Len(r) = Len(p)
            /\ {r[i] : i \in 1..Len(r)} = {p[i] : i \in 1..Len(p)}
            /\ \A i, j \in 1..Len(r) :
                  i < j => /\ ~RanksBefore(r[j], r[i])
                           /\ SameKeys(r[i], r[j]) => r[i].row < r[j].row

\* C27 witness: three players came back in another order than they went
\* in: the first two tie on all four keys with names that differ in case
\* and keep their input order, and the countback alone puts them before the
\* third.
C27_Witness ==
    /\ CallReturned("sort_players")
    /\ Len(last_result.body) = 3
    /\ LET r == last_result.body
       IN  /\ SameKeys(r[1], r[2])
           /\ r[1].name # r[2].name
           /\ r[1].row < r[2].row
           /\ r[3].row = 1
           /\ r[3].total_points = r[2].total_points
           /\ r[3].spend = r[2].spend
           /\ HigherTuple(r[2].countback, r[3].countback)

\* The tuple the countback rule gives for the scores counted: the distinct
\* scores from the highest down, each followed by the number of times it
\* occurs, cut or filled with 0.0 to 20 elements; (0.0, 0) when no score is
\* counted.
CountbackOf(counted) ==
    IF counted = <<>> THEN <<PyFloat(0), PyInt(0)>>
    ELSE LET D == {counted[i].v : i \in 1..Len(counted)}
             Nth(k) == CHOOSE d \in D : Cardinality({e \in D : e > d}) = k - 1
             Freq(d) == Cardinality({i \in 1..Len(counted) : counted[i].v = d})
         IN  [j \in 1..20 |->
                IF (j + 1) \div 2 > Cardinality(D) THEN PyFloat(0)
                ELSE IF j % 2 = 1 THEN PyFloat(Nth((j + 1) \div 2))
                ELSE PyInt(Freq(Nth(j \div 2)))]

\* C28: calculate_countback returns the countback tuple of the scores with
\* the zeros removed: (highest score, its frequency, next highest score, its
\* frequency, ...), scores strictly descending, (0.0, 0) when no score is
\* left to count, otherwise filled with 0.0 or cut to exactly 20 elements.
C28_CountbackOfNonZeroScores ==
    CallReturned("calculate_countback") =>
        last_result.body =
            CountbackOf(SelectSeq(call.scores, LAMBDA s : s.v # 0))

\* What holds instead: the tuple is that of the scores above zero; a
\* negative score is left out with the zeros.
CountbackOfPositiveScores ==
    CallReturned("calculate_countback") =>
        last_result.body =
            CountbackOf(SelectSeq(call.scores, LAMBDA s : s.v > 0))

\* More than ten distinct scores were counted and the tuple was cut.
CountbackTruncated ==
    /\ CallReturned("calculate_countback")
    /\ Cardinality({call.scores[i].v : i \in 1..Len(call.scores)} \ {0}) > 10
    /\ Len(last_result.body) = 20

=============================================================================
